---- MODULE Spec2Model ----
(***************************************************************************)
(* A model of parse.c, the Big5/ASCII tokenizer of OurNet::FuzzyIndex:     *)
(* extract_words fills the word tree from a null-terminated buffer, and    *)
(* parse_delim, parse_pair and parse_word walk the tree in increasing      *)
(* token order and hand posting records to the caller's callback.          *)
(*                                                                         *)
(* Bytes are the integers 0..255.  C arrays are sequences; a C offset i    *)
(* is element i+1 of the sequence.  One action is one iteration of the     *)
(* scan loop of extract_words, or one whole tree walk of a driver.         *)
(***************************************************************************)
EXTENDS Integers, Sequences, FiniteSets, TLC

VARIABLES
    text,       \* the caller's string, as it was handed to the first call
    buf,        \* memory at p: the string, its terminating 0, the bytes after it
    p,          \* extract_words' cursor, an index into buf
    query,      \* char query
    key,        \* char key[MAXKEY], and the one byte that follows it in memory
    val,        \* char val[MAXVAL]: the bytes written so far, the rest still 0
    valp,       \* char *valp, as an offset into val
    delim,      \* char delim[4]
    last,       \* struct entry *last: the word of the entry, NoEntry for 0
    wordtree,   \* tree *wordtree: the entries, in the tree's (strcmp) order
    cb,         \* PARSE_CB *cb
    pc,         \* where the program is: idle, scan, trav, done, undefined
    driver,     \* the driver the caller calls: delim, pair, word
    seed,       \* the delimiter the caller passes to parse_delim
    order,      \* the build's evaluation order of cb_word's call arguments
    ncall,      \* driver calls started so far
    calls,      \* the callback invocations of the current call, in order
    calls1,     \* the callback invocations of the first call
    branch,     \* the scan loop's last classification: the byte and the branch
    readHi,     \* highest index of buf read so far
    keyHi,      \* highest offset of key written so far (-1: none)
    valHi,      \* highest offset of val written so far (-1: none)
    heapOver    \* a byte was read or written past an entry's strdup'd word

vars == <<text, buf, p, query, key, val, valp, delim, last, wordtree, cb, pc,
          driver, seed, order, ncall, calls, calls1, branch, readHi, keyHi,
          valHi, heapOver>>

MAXKEY == 32
MAXVAL == 32768

NoEntry == <<>>

Min(S) == CHOOSE x \in S : \A y \in S : x <= y

(***************************************************************************)
(* The byte predicates (parse.c lines 6-8), on an unsigned byte.           *)
(***************************************************************************)
is_big5(b) == b > 160

is_big5word(b) == b > 163

is_alnum(b) ==
    \/ (b > 96 /\ b < 123)
    \/ (b > 64 /\ b < 91)
    \/ (b > 48 /\ b < 59)

\* line 183's test: the byte at p is above 0x40 and below 0x5b
is_upper(b) == b > 64 /\ b < 91

(***************************************************************************)
(* Memory.  Byte(m, i) is the byte at index i of m; past the modelled      *)
(* memory every byte is 0.  CStr is the C string at the start of a         *)
(* sequence: its bytes up to the first 0.                                  *)
(***************************************************************************)
Byte(m, i) == IF i >= 1 /\ i <= Len(m) THEN m[i] ELSE 0

CStr(s) ==
    LET z == {i \in 1..Len(s) : s[i] = 0}
    IN  IF z = {} THEN s ELSE SubSeq(s, 1, Min(z) - 1)

\* strncpy(dst, src, n) for src at index i of m: n bytes, 0-padded after the
\* first 0 of the source
Strncpy(m, i, n) ==
    LET z == {j \in 0..(n - 1) : Byte(m, i + j) = 0}
        stop == IF z = {} THEN n ELSE Min(z)
    IN  [j \in 1..n |-> IF j - 1 < stop THEN Byte(m, i + j - 1) ELSE 0]

\* the sequence s with bytes written at C offsets off, off+1, ...
Put(s, off, bytes) ==
    IF off = Len(s) THEN s \o bytes
    ELSE IF off > Len(s)
    THEN s \o [j \in 1..(off - Len(s)) |-> 0] \o bytes
    ELSE SubSeq(s, 1, off) \o bytes \o SubSeq(s, off + Len(bytes) + 1, Len(s))

(***************************************************************************)
(* strcmp's order on words: bytes compare as unsigned char.                *)
(***************************************************************************)
StrLess(a, b) ==
    LET n == IF Len(a) < Len(b) THEN Len(a) ELSE Len(b)
        d == {i \in 1..n : a[i] # b[i]}
    IN  IF d = {} THEN Len(a) < Len(b) ELSE a[Min(d)] < b[Min(d)]

(***************************************************************************)
(* The word tree (avltree.h): entries {word, freq} kept in wordcmp order.  *)
(* LowerBound is the number of entries whose word is below x, plus one.    *)
(***************************************************************************)
RECURSIVE LowerBound(_, _, _, _)
LowerBound(t, x, lo, hi) ==
    IF lo > hi THEN lo
    ELSE LET mid == (lo + hi) \div 2
         IN  IF StrLess(t[mid].word, x)
             THEN LowerBound(t, x, mid + 1, hi)
             ELSE LowerBound(t, x, lo, mid - 1)

\* tree_srch: the position of the entry whose word is x, 0 when there is none
tree_srch(t, x) ==
    LET i == LowerBound(t, x, 1, Len(t))
    IN  IF i <= Len(t) /\ t[i].word = x THEN i ELSE 0

\* tree_add: the tree with a new entry, in order
tree_add(t, en) ==
    LET i == LowerBound(t, en.word, 1, Len(t))
    IN  SubSeq(t, 1, i - 1) \o <<en>> \o SubSeq(t, i, Len(t))

AddNewEntry(t, w) == tree_add(t, [word |-> w, freq |-> 1])

\* addentry(x): x is the C string in key
addentry(t, x) ==
    LET w == CStr(x)
        i == tree_srch(t, w)
    IN  IF i # 0
        THEN [t EXCEPT ![i].freq = @ + 1]
        ELSE AddNewEntry(t, w)

(***************************************************************************)
(* extract_words, lines 146-198: one iteration of the while loop.          *)
(*                                                                         *)
(* The loops inside an iteration are written without one level of          *)
(* recursion per iteration: the loop's exit is the first position that     *)
(* fails its test, and its body is applied to the positions before it, in  *)
(* order, the first half of them before the second half (the test on the   *)
(* first half's result only makes the evaluation finish it first).         *)
(***************************************************************************)

\* while(is_big5word(p += 2)), entered with p = q: the p the loop exits with
RunEnd(m, q) ==
    LET K == IF Len(m) > q THEN (Len(m) - q) \div 2 + 1 ELSE 1
    IN  q + 2 * Min({k \in 1..K : ~is_big5word(Byte(m, q + 2 * k))})

\* key after key[4] = 0; strncpy(key, p-2, 4), for p-2 at index i
BigramKey(k, m, i) == Put(Put(k, 4, <<0>>), 0, Strncpy(m, i, 4))

\* key after key[4] = 0; key[2] = key[3] = 0x21; strncpy(key, p-2, 2)
UnigramKey(k, m, i) == Put(Put(Put(k, 4, <<0>>), 2, <<33, 33>>), 0, Strncpy(m, i, 2))

\* lines 155-158: the body for the iterations lo..hi of the loop entered at q;
\* iteration j runs with p = q + 2j
RECURSIVE AddBigrams(_, _, _, _, _, _)
AddBigrams(t, k, m, q, lo, hi) ==
    IF lo > hi THEN t
    ELSE IF lo = hi THEN addentry(t, BigramKey(k, m, q + 2 * lo - 2))
    ELSE LET mid == (lo + hi) \div 2
             left == AddBigrams(t, k, m, q, lo, mid)
         IN  IF Len(left) > 0 THEN AddBigrams(left, k, m, q, mid + 1, hi) ELSE left

\* the trailing ideograph kept whatever the query-mode
NeverSuppressed(qy, m, e) == FALSE

\* line 163: the trailing single character is added unless this holds
Suppressed(qy, m, e) == qy # 0 /\ is_big5word(Byte(m, e - 4))

\* lines 147-178, for p at index i: the new p, key, tree and the highest read
Big5Step(m, i, k, t, qy) ==
    LET q == i + 2
    IN  IF is_big5word(Byte(m, q))
        THEN LET e  == RunEnd(m, q)
                 n  == (e - q) \div 2 - 1
                 t1 == IF is_big5word(Byte(m, q - 2))
                       THEN addentry(t, BigramKey(k, m, q - 2)) ELSE t
                 k1 == IF is_big5word(Byte(m, q - 2))
                       THEN BigramKey(k, m, q - 2) ELSE Put(k, 4, <<0>>)
                 t2 == AddBigrams(t1, k1, m, q, 1, n)
                 k2 == IF n >= 1 THEN BigramKey(k1, m, e - 4) ELSE k1
             IN  IF ~Suppressed(qy, m, e)
                 THEN [p |-> e, key |-> UnigramKey(k2, m, e - 2),
                       tree |-> addentry(t2, UnigramKey(k2, m, e - 2)),
                       hi |-> e, wrote |-> TRUE]
                 ELSE [p |-> e, key |-> k2, tree |-> t2, hi |-> e, wrote |-> TRUE]
        ELSE IF is_big5word(Byte(m, q - 2))
        THEN [p |-> q, key |-> UnigramKey(k, m, q - 2),
              tree |-> addentry(t, UnigramKey(k, m, q - 2)),
              hi |-> q, wrote |-> TRUE]
        ELSE [p |-> q, key |-> k, tree |-> t, hi |-> q, wrote |-> FALSE]

\* do { ... ++p } while(is_alnum(p)), with p at index i after ++p: the p the
\* loop exits with
RECURSIVE AlnumEnd(_, _)
AlnumEnd(m, i) == IF is_alnum(Byte(m, i)) THEN AlnumEnd(m, i + 1) ELSE i

\* line 183 over the run i..e-1: 32 is added to every upper-case letter
Lowered(m, i, e) ==
    SubSeq(m, 1, i - 1)
    \o [j \in 1..(e - i) |-> IF is_upper(m[i + j - 1]) THEN m[i + j - 1] + 32
                                                       ELSE m[i + j - 1]]
    \o SubSeq(m, e, Len(m))

\* line 189
Clamp(xlen) == IF xlen > MAXKEY THEN MAXKEY ELSE xlen

\* lines 190-191: strncpy(key, start, xlen); key[xlen] = 0
AlnumKey(k, m, i, xlen) == Put(Put(k, 0, SubSeq(m, i, i + xlen - 1)), xlen, <<0>>)

Hi(a, b) == IF a > b THEN a ELSE b

(***************************************************************************)
(* The emitters.  st is the scratch state a walk carries: key, val, valp,  *)
(* last, the callback invocations so far, and the hazards.                 *)
(***************************************************************************)

\* is_big5 on a char pointer (en->word): char is signed, so a byte of 128 or
\* more is negative and converts to an unsigned int of at least 2^32 - 128
is_big5_char(b) == IF b >= 128 THEN TRUE ELSE b > 160

\* the byte at offset i of an entry's word w; past the word's terminating 0 it is outside
\* the strdup'd block
WordByte(w, i) == IF i < Len(w) THEN w[i + 1] ELSE 0

\* the count handed over as it is stored
Uncapped(freq) == freq

\* en->freq > 0xa3 ? 0xa3 : en->freq
Emitted(freq) == IF freq > 163 THEN 163 ELSE freq

\* the callback's arguments: a1 is a C string; a2 is val's first a3 bytes
\* (cb_delim), a C string (cb_pair) or a number (cb_word)
Invocation(x, y, z) == [a1 |-> x, a2 |-> y, a3 |-> z]

\* lines 64-68 (and 53-57): memcpy(key, en->word, 2); key[2]=0;
\* memcpy(valp = val, delim, 4); memcpy(valp+4, en->word+2, 2); valp += 6, freq there
StartGroup(st, en, dl) ==
    [st EXCEPT !.key = Put(Put(@, 0, <<WordByte(en.word, 0), WordByte(en.word, 1)>>),
                           2, <<0>>),
               !.val = Put(Put(Put(@, 0, dl), 4,
                               <<WordByte(en.word, 2), WordByte(en.word, 3)>>),
                           6, <<Emitted(en.freq)>>),
               !.valp = 6,
               !.keyHi = Hi(@, 2),
               !.valHi = Hi(@, 6),
               !.heapOver = @ \/ Len(en.word) < 3]

\* lines 45-46: memcpy(valp+1, en->word+2, 2); valp += 3, freq stored there
AppendToGroup(st, en) ==
    [st EXCEPT !.val = Put(Put(@, st.valp + 1,
                               <<WordByte(en.word, 2), WordByte(en.word, 3)>>),
                           st.valp + 3, <<Emitted(en.freq)>>),
               !.valp = st.valp + 3,
               !.valHi = Hi(@, st.valp + 3),
               !.heapOver = @ \/ Len(en.word) < 3]

\* line 49: cb(key, val, valp-val+1)
FlushGroup(st) ==
    [st EXCEPT !.calls = Append(@, Invocation(CStr(st.key),
                                              SubSeq(st.val, 1, st.valp + 1),
                                              st.valp + 1))]

\* the lead bytes compared, the trail bytes not
SameLeadByte(w, l) == WordByte(w, 0) = WordByte(l, 0)

\* line 40
SamePrefix(w, l) ==
    WordByte(w, 0) = WordByte(l, 0) /\ WordByte(w, 1) = WordByte(l, 1)

\* lines 73-78
AsciiDelim(st, en, dl) ==
    LET v == Put(Put(Put(st.val, 0, dl), 4, <<32, 32>>), 6, <<Emitted(en.freq)>>)
    IN  [st EXCEPT !.val = v,
                   !.valp = 6,
                   !.valHi = Hi(@, 6),
                   !.calls = Append(@, Invocation(en.word, SubSeq(v, 1, 7), 7))]

cb_delim(st, en, dl) ==
    IF is_big5_char(WordByte(en.word, 0))
    THEN LET s1 == IF st.last # NoEntry
                   THEN IF SamePrefix(en.word, st.last)
                        THEN AppendToGroup(st, en)
                        ELSE StartGroup(FlushGroup(st), en, dl)
                   ELSE StartGroup(st, en, dl)
         IN  [s1 EXCEPT !.last = en.word]
    ELSE AsciiDelim(st, en, dl)

cb_pair(st, en) ==
    IF is_big5_char(WordByte(en.word, 0))
    THEN LET k == Put(Put(st.key, 0, <<WordByte(en.word, 0), WordByte(en.word, 1)>>),
                      2, <<0>>)
         IN  [st EXCEPT !.key = k,
                        !.keyHi = Hi(@, 2),
                        !.heapOver = @ \/ Len(en.word) < 2,
                        !.calls = Append(@, Invocation(CStr(k),
                                                       SubSeq(en.word, 3, Len(en.word)),
                                                       Emitted(en.freq)))]
    ELSE [st EXCEPT !.calls = Append(@, Invocation(en.word, <<32, 32>>,
                                                   Emitted(en.freq)))]

\* line 106's second argument, strlen(en->word)+2 as a pointer: strlen sees the word
\* before or after strcat has padded it, as the build orders the arguments
PaddedLength(w, ord) ==
    IF ord = "strcat_first" THEN Len(w) + 2 + 2 ELSE Len(w) + 2

cb_word(st, en, ord) ==
    IF is_big5_char(WordByte(en.word, 0))
    THEN [st EXCEPT !.calls = Append(@, Invocation(en.word, 4, Emitted(en.freq)))]
    ELSE [st EXCEPT !.heapOver = TRUE,
                    !.calls = Append(@, Invocation(en.word \o <<32, 32>>,
                                                   PaddedLength(en.word, ord),
                                                   Emitted(en.freq)))]

Visit(kind, st, en, dl, ord) ==
    CASE kind = "delim" -> cb_delim(st, en, dl)
      [] kind = "pair"  -> cb_pair(st, en)
      [] OTHER          -> cb_word(st, en, ord)

\* tree_trav: the visitor on the entries lo..hi, in the tree's order
RECURSIVE tree_trav(_, _, _, _, _, _, _)
tree_trav(kind, st, t, lo, hi, dl, ord) ==
    IF lo > hi THEN st
    ELSE IF lo = hi THEN Visit(kind, st, t[lo], dl, ord)
    ELSE LET mid == (lo + hi) \div 2
             left == tree_trav(kind, st, t, lo, mid, dl, ord)
         IN  IF left.valp >= 0 THEN tree_trav(kind, left, t, mid + 1, hi, dl, ord)
             ELSE left

\* lines 212-215: last->word[2] = 0; cb(last->word, val, valp-val+1)
FinalFlush(st) ==
    IF st.last # NoEntry
    THEN [st EXCEPT !.calls = Append(@, Invocation(
                                  CStr(SubSeq(st.last, 1, IF Len(st.last) < 2
                                                          THEN Len(st.last) ELSE 2)),
                                  SubSeq(st.val, 1, st.valp + 1),
                                  st.valp + 1)),
                    !.heapOver = @ \/ Len(st.last) < 2]
    ELSE st

Scratch ==
    [key |-> key, val |-> val, valp |-> valp, last |-> last, calls |-> calls,
     keyHi |-> keyHi, valHi |-> valHi, heapOver |-> heapOver]

(***************************************************************************)
(* The inputs.  A text is a concatenation of units: two-byte characters    *)
(* and single ASCII bytes.                                                 *)
(***************************************************************************)
MaxUnits == 3       \* units of a short text
MaxMalUnits == 2    \* units before the lone lead byte of a malformed text
MaxRep == 166       \* repetitions of a pattern in a long text
MaxRun == 33        \* bytes of a long ASCII run
NCalls == 2         \* driver calls in a row on the same input

Ideo1 == <<164, 97>>     \* an ideograph whose trail byte is the letter a
Ideo2 == <<164, 165>>    \* the same lead byte, a trail byte in the lead range
Symbol == <<161, 66>>    \* a symbol-range character (lead byte 0xA1)

Units == {Ideo1, Ideo2, Symbol, <<97>>, <<66>>, <<48>>}

RECURSIVE UnitSeqs(_)
UnitSeqs(n) ==
    IF n = 0 THEN {<<>>}
    ELSE LET s == UnitSeqs(n - 1) IN s \cup {x \o u : x \in s, u \in Units}

Rep(pat, k) == [i \in 1..(k * Len(pat)) |-> pat[((i - 1) % Len(pat)) + 1]]

ShortTexts == UnitSeqs(MaxUnits)

\* a word of two letters before a short text
WordTexts == {<<66, 97>> \o x : x \in UnitSeqs(MaxUnits)}

MalformedTexts == {x \o <<l>> : x \in UnitSeqs(MaxMalUnits), l \in {164, 161}}

RepTexts ==
    {Rep(pat, k) : pat \in {Ideo1, Ideo1 \o Ideo2, <<97, 66, 48>>},
                   k \in (MaxRep - 2)..MaxRep}

RunTexts == {Rep(<<66>>, k) \o u : k \in (MaxRun - 2)..MaxRun, u \in {<<>>, Ideo1}}

\* The smallest number of same-prefix tokens whose group does not fit val:
\* a group of k tokens takes 4 + 3k bytes.
GroupTooBig == (MAXVAL - 4) \div 3 + 1

\* the j-th of a series of distinct ideographs: lead bytes from 0xA4 up, with
\* the 157 trail bytes of Big5 (0x40..0x7E, 0xA1..0xFE)
Trail(r) == IF r < 63 THEN 64 + r ELSE 161 + (r - 63)

IdeoNo(j) == <<164 + (j \div 157), Trail(j % 157)>>

Pivot == <<249, 254>>

\* the ideograph Pivot before each of n distinct ideographs: n bigrams with
\* the prefix Pivot
PivotText(n) ==
    [i \in 1..(4 * n) |->
        IF (i - 1) % 4 < 2 THEN Pivot[((i - 1) % 4) + 1]
        ELSE IdeoNo((i - 1) \div 4)[((i - 1) % 4) - 1]]

\* what may lie in memory after the terminating 0 of a malformed text
Tails == {<<>>, <<165, 66>>, <<97, 97>>, <<164, 164, 164>>}

Seeds == {<<35, 36, 37, 38>>}

InitWith(texts) ==
    /\ text \in texts
    /\ \E tail \in Tails :
          /\ tail # <<>> => text \in MalformedTexts
          /\ buf = text \o <<0>> \o tail
    /\ query \in {0, 1}
    /\ driver \in {"delim", "pair", "word"}
    /\ order \in {"strlen_first", "strcat_first"}
    /\ driver # "word" => order = "strlen_first"
    /\ seed \in Seeds
    /\ p = 1
    /\ key = [i \in 1..(MAXKEY + 1) |-> 0]
    /\ val = <<>>
    /\ valp = 0
    /\ delim = <<63, 63, 63, 63>>
    /\ last = NoEntry
    /\ wordtree = <<>>
    /\ cb = "null"
    /\ pc = "idle"
    /\ ncall = 0
    /\ calls = <<>>
    /\ calls1 = <<>>
    /\ branch = [byte |-> 0, kind |-> "none"]
    /\ readHi = 0
    /\ keyHi = -1
    /\ valHi = -1
    /\ heapOver = FALSE

Init ==
    InitWith(ShortTexts \cup WordTexts \cup MalformedTexts \cup RepTexts \cup RunTexts)

(***************************************************************************)
(* The actions.                                                            *)
(***************************************************************************)

\* the caller calls the driver: extract_words starts (tree_init, line 142)
Call ==
    /\ pc = "idle" \/ (pc = "done" /\ ncall < NCalls)
    /\ pc' = "scan"
    /\ ncall' = ncall + 1
    /\ buf' = text \o SubSeq(buf, Len(text) + 1, Len(buf))
    /\ p' = 1
    /\ wordtree' = <<>>
    /\ calls' = <<>>
    /\ calls1' = IF ncall = 1 THEN calls ELSE calls1
    /\ UNCHANGED <<text, query, key, val, valp, delim, last, cb, driver, seed,
                   order, branch, readHi, keyHi, valHi, heapOver>>

\* lines 147-178
ScanBig5 ==
    /\ pc = "scan"
    /\ Byte(buf, p) # 0
    /\ is_big5(Byte(buf, p))
    /\ \E r \in {Big5Step(buf, p, key, wordtree, query)} :
           /\ p' = r.p
           /\ key' = r.key
           /\ wordtree' = r.tree
           /\ readHi' = Hi(readHi, r.hi)
           /\ keyHi' = IF r.wrote THEN Hi(keyHi, 4) ELSE keyHi
    /\ branch' = [byte |-> Byte(buf, p), kind |-> "big5"]
    /\ UNCHANGED <<text, buf, query, val, valp, delim, last, cb, pc, driver, seed,
                   order, ncall, calls, calls1, valHi, heapOver>>

\* lines 179-194
ScanAlnum ==
    /\ pc = "scan"
    /\ Byte(buf, p) # 0
    /\ ~is_big5(Byte(buf, p))
    /\ is_alnum(Byte(buf, p))
    /\ LET e == AlnumEnd(buf, p + 1)
           m == Lowered(buf, p, e)
           xlen == Clamp(e - p)
       IN  /\ buf' = m
           /\ p' = e
           /\ readHi' = Hi(readHi, e)
           /\ IF e - p > 1
              THEN /\ key' = AlnumKey(key, m, p, xlen)
                   /\ keyHi' = Hi(keyHi, xlen)
                   /\ wordtree' = addentry(wordtree, AlnumKey(key, m, p, xlen))
              ELSE UNCHANGED <<key, keyHi, wordtree>>
    /\ branch' = [byte |-> Byte(buf, p), kind |-> "alnum"]
    /\ UNCHANGED <<text, query, val, valp, delim, last, cb, pc, driver, seed,
                   order, ncall, calls, calls1, valHi, heapOver>>

\* lines 195-197
ScanSkip ==
    /\ pc = "scan"
    /\ Byte(buf, p) # 0
    /\ ~is_big5(Byte(buf, p))
    /\ ~is_alnum(Byte(buf, p))
    /\ p' = p + 1
    /\ readHi' = Hi(readHi, p)
    /\ branch' = [byte |-> Byte(buf, p), kind |-> "other"]
    /\ UNCHANGED <<text, buf, query, key, val, valp, delim, last, wordtree, cb, pc,
                   driver, seed, order, ncall, calls, calls1, keyHi, valHi,
                   heapOver>>

\* line 146 finds the 0 at p: extract_words returns to the driver
ScanEnd ==
    /\ pc = "scan"
    /\ Byte(buf, p) = 0
    /\ pc' = "trav"
    /\ readHi' = Hi(readHi, p)
    /\ UNCHANGED <<text, buf, p, query, key, val, valp, delim, last, wordtree, cb,
                   driver, seed, order, ncall, calls, calls1, branch, keyHi, valHi,
                   heapOver>>

\* last as the call before left it
LastKept(l) == l

\* line 207: last = 0
LastAtWalkStart(l) == NoEntry

Walked(kind, st) ==
    tree_trav(kind, st, wordtree, 1, Len(wordtree), seed, order)

Store(st) ==
    /\ key' = st.key
    /\ val' = st.val
    /\ valp' = st.valp
    /\ last' = st.last
    /\ calls' = st.calls
    /\ keyHi' = st.keyHi
    /\ valHi' = st.valHi
    /\ heapOver' = st.heapOver

\* parse_delim, lines 205-216
TravDelim ==
    /\ pc = "trav"
    /\ driver = "delim"
    /\ delim' = seed
    /\ cb' = "callback"
    /\ \E st \in {FinalFlush(Walked("delim",
                       [Scratch EXCEPT !.last = LastAtWalkStart(last)]))} : Store(st)
    /\ wordtree' = <<>>
    /\ pc' = "done"
    /\ UNCHANGED <<text, buf, p, query, driver, seed, order, ncall, calls1, branch,
                   readHi>>

\* parse_pair, lines 222-224
TravPair ==
    /\ pc = "trav"
    /\ driver = "pair"
    /\ cb' = "callback"
    /\ \E st \in {Walked("pair", Scratch)} : Store(st)
    /\ wordtree' = <<>>
    /\ pc' = "done"
    /\ UNCHANGED <<text, buf, p, query, delim, driver, seed, order, ncall, calls1,
                   branch, readHi>>

\* parse_word, lines 231-233
TravWord ==
    /\ pc = "trav"
    /\ driver = "word"
    /\ cb' = "callback"
    /\ \E st \in {Walked("word", Scratch)} : Store(st)
    /\ wordtree' = <<>>
    /\ pc' = "done"
    /\ UNCHANGED <<text, buf, p, query, delim, driver, seed, order, ncall, calls1,
                   branch, readHi>>

\* a read past the terminating 0, or a write past key, val or an entry's word,
\* has happened: the C standard gives the execution no meaning from there on
Hazard ==
    \/ readHi > Len(text) + 1
    \/ keyHi >= MAXKEY
    \/ valHi >= MAXVAL
    \/ heapOver

Undefined ==
    /\ pc \in {"scan", "trav", "done"}
    /\ Hazard
    /\ pc' = "undefined"
    /\ UNCHANGED <<text, buf, p, query, key, val, valp, delim, last, wordtree, cb,
                   driver, seed, order, ncall, calls, calls1, branch, readHi, keyHi,
                   valHi, heapOver>>

Next ==
    \/ Call
    \/ ScanBig5
    \/ ScanAlnum
    \/ ScanSkip
    \/ ScanEnd
    \/ TravDelim
    \/ TravPair
    \/ TravWord
    \/ Undefined

Spec == Init /\ [][Next]_vars

\* The large input: one driver call of parse_delim on a text whose tokens with
\* the prefix Pivot do not fit val, beside short texts for the other paths.
InitBuf ==
    /\ InitWith({PivotText(GroupTooBig)} \cup UnitSeqs(2) \cup RunTexts)
    /\ Len(text) > MaxRun + 2 => (driver = "delim" /\ query = 0)

SpecBuf == InitBuf /\ [][Next]_vars

(***************************************************************************)
(* What the specification says of a text, stated on the text itself.       *)
(***************************************************************************)

\* The starts of the characters of x in lo..hi, given the first start i at or
\* after lo, and the start that follows hi.  A byte above 0xA0 starts a
\* two-byte character, any other byte is a character of its own.
RECURSIVE Starts(_, _, _, _)
Starts(x, i, lo, hi) ==
    IF i > hi THEN [s |-> {}, next |-> i]
    ELSE IF lo = hi
    THEN [s |-> {lo}, next |-> IF x[lo] > 160 THEN lo + 2 ELSE lo + 1]
    ELSE LET mid == (lo + hi) \div 2
             l == Starts(x, i, lo, mid)
         IN  IF l.next > hi THEN l
             ELSE LET r == Starts(x, l.next, mid + 1, hi)
                  IN  [s |-> l.s \cup r.s, next |-> r.next]

CharStarts(x) == IF x = <<>> THEN {} ELSE Starts(x, 1, 1, Len(x)).s

\* no lead byte is the last byte of the text
WellFormed(x) == x = <<>> \/ Starts(x, 1, 1, Len(x)).next = Len(x) + 1

\* the starts of the ideographs of x (lead byte above 0xA3)
Ideographs(x) == {i \in CharStarts(x) : x[i] > 163}

\* an ideograph followed by an ideograph: one bigram for the pair
BigramStarts(x) == LET I == Ideographs(x) IN {i \in I : i + 2 \in I}

\* the last ideograph of a maximal run, and whether the run has two or more
RunLasts(x) == LET I == Ideographs(x) IN {i \in I : i + 2 \notin I}

LongRun(x, i) == i - 2 \in Ideographs(x)

BigramAt(x, i) == SubSeq(x, i, i + 3)

UnigramAt(x, i) == SubSeq(x, i, i + 1) \o <<33, 33>>

\* the runs that get their trailing unigram: every run of one, and the runs of
\* two or more when query-mode is off
UnigramStarts(x, qy) == {i \in RunLasts(x) : ~(qy # 0 /\ LongRun(x, i))}

ExpectedCJKCount(x, qy, w) ==
    Cardinality({i \in BigramStarts(x) : BigramAt(x, i) = w})
    + Cardinality({i \in UnigramStarts(x, qy) : UnigramAt(x, i) = w})

Words(t) == {t[k].word : k \in 1..Len(t)}

IsCJKWord(w) == w[1] > 127

\* C1: when extract_words has scanned a well-formed text, the CJK entries of
\* the tree are exactly these: one occurrence of the bigram of every adjacent
\* pair of ideographs (n-1 for a run of n), and one occurrence of the unigram
\* of the last ideograph of a run, except that in query-mode a run of two or
\* more gets no unigram.
C1_BigramsAndUnigram ==
    (pc = "trav" /\ WellFormed(text)) =>
        /\ \A k \in 1..Len(wordtree) :
              IsCJKWord(wordtree[k].word) =>
                 wordtree[k].freq = ExpectedCJKCount(text, query, wordtree[k].word)
        /\ \A i \in BigramStarts(text) : BigramAt(text, i) \in Words(wordtree)
        /\ \A i \in UnigramStarts(text, query) : UnigramAt(text, i) \in Words(wordtree)
        /\ \A k \in 1..Len(wordtree) : wordtree[k].freq >= 1

\* a run of three ideographs has been scanned in query-mode: two bigrams, and
\* no unigram for its last character
C1_Witness ==
    /\ pc = "trav"
    /\ WellFormed(text)
    /\ query = 1
    /\ \E i \in RunLasts(text) :
          /\ i - 2 \in Ideographs(text)
          /\ i - 4 \in Ideographs(text)
          /\ i - 6 \notin Ideographs(text)
          /\ BigramAt(text, i - 4) \in Words(wordtree)
          /\ BigramAt(text, i - 2) \in Words(wordtree)
          /\ UnigramAt(text, i) \notin Words(wordtree)

\* the ASCII letters and digits
IsAsciiAlnum(b) ==
    \/ (b >= 65 /\ b <= 90)
    \/ (b >= 97 /\ b <= 122)
    \/ (b >= 48 /\ b <= 57)

\* C6: a byte that reaches the tokenizer's is_alnum test takes the ASCII branch
\* exactly when it is an ASCII letter A-Z or a-z or a digit 0-9.
C6_AlnumIsLettersAndDigits ==
    branch.kind \in {"alnum", "other"} =>
        (branch.kind = "alnum" <=> IsAsciiAlnum(branch.byte))

\* C8: a lead byte with no byte after it is skipped as the end of the input:
\* extract_words never reads a buffer position after the terminating 0.
C8_NoReadPastTerminator == readHi <= Len(text) + 1

\* C10: every write extract_words makes to key, the terminating 0 after a
\* token included, is at an offset in 0..MAXKEY-1.
C10_KeyWritesInBounds == keyHi <= MAXKEY - 1

\* the starts of the maximal runs of the characters that satisfy P, and the
\* end of the run that starts at i
RunStarts(x, P(_)) ==
    LET A == {i \in CharStarts(x) : P(x[i])}
    IN  {i \in A : i - 1 \notin A}

RunLast(x, i, P(_)) ==
    LET A == {j \in CharStarts(x) : P(x[j])}
    IN  Min({j \in i..Len(x) : j \in A /\ j + 1 \notin A})

Lower(b) == IF b >= 65 /\ b <= 90 THEN b + 32 ELSE b

\* the token of the run at i: its first 32 bytes at most, in lower case
RunToken(x, i, P(_)) ==
    LET e == RunLast(x, i, P)
        n == IF e - i + 1 > 32 THEN 32 ELSE e - i + 1
    IN  [j \in 1..n |-> Lower(x[i + j - 1])]

\* the runs of two or more
TokenRuns(x, P(_)) == {i \in RunStarts(x, P) : RunLast(x, i, P) > i}

RunCount(x, w, P(_)) ==
    Cardinality({i \in TokenRuns(x, P) : RunToken(x, i, P) = w})

\* C4: when extract_words has scanned a text, the ASCII entries of the tree are
\* exactly these: one occurrence, for every maximal run of two or more ASCII
\* letters and digits, of the run's first 32 bytes in lower case.
C4_AsciiRuns ==
    (pc = "trav" /\ WellFormed(text)) =>
        /\ \A k \in 1..Len(wordtree) :
              ~IsCJKWord(wordtree[k].word) =>
                 wordtree[k].freq = RunCount(text, wordtree[k].word, IsAsciiAlnum)
        /\ \A i \in TokenRuns(text, IsAsciiAlnum) :
              RunToken(text, i, IsAsciiAlnum) \in Words(wordtree)

(***************************************************************************)
(* The walks.  A step of a driver's walk takes pc from trav to done; the   *)
(* tree it walks is wordtree before the step, the invocations it makes are *)
(* calls after it.                                                         *)
(***************************************************************************)
Prefix(w) == SubSeq(w, 1, 2)

AsciiEntries(t) == {k \in 1..Len(t) : ~IsCJKWord(t[k].word)}

CJKEntries(t) == {k \in 1..Len(t) : IsCJKWord(t[k].word)}

Prefixes(t) == {Prefix(t[k].word) : k \in CJKEntries(t)}

Group(t, pr) == {k \in CJKEntries(t) : Prefix(t[k].word) = pr}

\* the r-th entry of a group, in the order of the walk
Nth(G, r) == CHOOSE k \in G : Cardinality({j \in G : j < k}) = r - 1

RankIn(G, k) == Cardinality({j \in G : j < k}) + 1

Cap(c) == IF c <= 163 THEN c ELSE 163

\* a token's last two bytes and its frequency byte
Triple(en) == SubSeq(en.word, Len(en.word) - 1, Len(en.word)) \o <<Cap(en.freq)>>

GroupValue(t, pr, dl) ==
    LET G == Group(t, pr)
    IN  dl \o [b \in 1..(3 * Cardinality(G)) |->
                  Triple(t[Nth(G, ((b - 1) \div 3) + 1)])[((b - 1) % 3) + 1]]

DelimWalk == pc = "trav" /\ pc' = "done" /\ driver = "delim" /\ WellFormed(text)

C2_Step ==
    DelimWalk =>
        /\ Len(calls') = Cardinality(AsciiEntries(wordtree))
                         + Cardinality(Prefixes(wordtree))
        /\ \A k \in AsciiEntries(wordtree) :
              /\ k <= Len(calls')
              /\ calls'[k] = [a1 |-> wordtree[k].word,
                              a2 |-> seed \o <<32, 32, Cap(wordtree[k].freq)>>,
                              a3 |-> 7]
        /\ \A pr \in Prefixes(wordtree) :
              /\ Cardinality({j \in 1..Len(calls') : calls'[j].a1 = pr}) = 1
              /\ \A j \in 1..Len(calls') :
                    calls'[j].a1 = pr =>
                       /\ calls'[j].a2 = GroupValue(wordtree, pr, seed)
                       /\ calls'[j].a3 = 4 + 3 * Cardinality(Group(wordtree, pr))

\* C2: a walk of parse_delim invokes the callback once per ASCII token, at the
\* token's place in the walk, and once per distinct 2-byte CJK prefix, with
\* key = the prefix, value = the caller's 4-byte delimiter followed, for each
\* token with that prefix in the order of the walk, by the token's last 2 bytes
\* and one frequency byte, and length = 4 + 3k for the k tokens of the prefix;
\* the group open at the end of the walk is flushed too.
C2_OneCallbackPerPrefix == [][C2_Step]_vars

\* parse_delim has walked a tree with an ASCII token and two prefixes, one of
\* them with two tokens or more: their group came in one invocation
C2_Witness ==
    /\ pc = "done"
    /\ driver = "delim"
    /\ WellFormed(text)
    /\ Len(calls) = 3
    /\ calls[1].a3 = 7 /\ calls[1].a1[1] < 128
    /\ calls[2].a1 = Ideo1 /\ calls[2].a3 >= 10
    /\ calls[3].a1 = Ideo2

\* the frequency the walk handed over for entry k of the tree t, in calls c
Handed(kind, t, c, k) ==
    IF kind # "delim" THEN c[k].a3
    ELSE IF ~IsCJKWord(t[k].word) THEN c[k].a2[7]
    ELSE LET pr == Prefix(t[k].word)
             j == CHOOSE i \in 1..Len(c) : c[i].a1 = pr
         IN  c[j].a2[4 + 3 * RankIn(Group(t, pr), k)]

\* the number of times extract_words produced the token w from the text x
Produced(x, qy, w) ==
    IF IsCJKWord(w) THEN ExpectedCJKCount(x, qy, w) ELSE RunCount(x, w, is_alnum)

C3_Step ==
    (pc = "trav" /\ pc' = "done" /\ WellFormed(text)) =>
        \A k \in 1..Len(wordtree) :
           /\ wordtree[k].freq = Produced(text, query, wordtree[k].word)
           /\ Handed(driver, wordtree, calls', k) = Cap(wordtree[k].freq)

\* C3: in a walk of any of the three drivers the frequency handed to the
\* consumer for a token is min(c, 163), where c, the count stored in the
\* token's entry, is the number of times extract_words produced the token.
C3_SaturatedFrequency == [][C3_Step]_vars

\* parse_delim has emitted 163 for a token appended to its group that
\* extract_words produced more than 163 times
C3_Witness ==
    /\ pc = "done"
    /\ driver = "delim"
    /\ WellFormed(text)
    /\ Produced(text, query, Ideo2 \o Ideo1) > 163
    /\ \E j \in 1..Len(calls) :
          /\ calls[j].a1 = Ideo2
          /\ calls[j].a3 = 10
          /\ SubSeq(calls[j].a2, 8, 10) = Ideo1 \o <<163>>

\* C5: a later call of the same driver on the same text, delimiter and
\* query-mode makes the same callback invocations as the first call.
C5_SecondCallSame == (pc = "done" /\ ncall >= 2) => calls = calls1

\* parse_delim has run twice on a text with an ASCII token and two groups
C5_Witness ==
    /\ pc = "done"
    /\ ncall = 2
    /\ driver = "delim"
    /\ Len(calls) >= 3
    /\ calls = calls1
    /\ \E j \in 1..Len(calls) : calls[j].a3 >= 10

\* C7: cb_word hands over an ASCII token padded with two spaces, and as second
\* argument the byte length of the padded token, whatever the order in which
\* the arguments are evaluated; for a CJK token the second argument is 4.
C7_PaddedLength ==
    (pc = "done" /\ driver = "word" /\ WellFormed(text)) =>
        \A j \in 1..Len(calls) :
           IF IsCJKWord(calls[j].a1)
           THEN calls[j].a2 = 4
           ELSE /\ Len(calls[j].a1) >= 4
                /\ SubSeq(calls[j].a1, Len(calls[j].a1) - 1, Len(calls[j].a1))
                      = <<32, 32>>
                /\ calls[j].a2 = Len(calls[j].a1)

\* C9: when appending an entry or starting a group would take parse_delim past
\* the end of val, the call is aborted and reported instead: no byte is written
\* outside val (offsets 0..MAXVAL-1).
C9_ValWritesInBounds == valHi <= MAXVAL - 1

====
